---- MODULE Spec2Model ----
(***************************************************************************)
(* A model of package panics (src/panics.go): the assertion helpers, panic *)
(* capture (Recover, RecoverAndHandle), Try, Retry and RecoveryMiddleware. *)
(*                                                                         *)
(* Spec runs one goroutine; SpecConcurrent runs two, each with a stack and *)
(* a panic of its own, interleaved at every step by Switch.                *)
(*                                                                         *)
(* A goroutine runs a call stack of frames.  A panic unwinds the stack   *)
(* frame by frame, running each frame's deferred calls; recover() called   *)
(* by a deferred call that the unwinding itself invoked stops the panic    *)
(* and makes the deferring frame return normally.  A panic that unwinds    *)
(* the last frame terminates the goroutine (the stack becomes empty).      *)
(*                                                                         *)
(* panics.go imports log/slog, so it builds with Go >= 1.21 only, where    *)
(* panic(nil) itself raises a *runtime.PanicNilError: every abort payload  *)
(* that recover() sees is non-nil, and Payloads holds non-nil values.      *)
(***************************************************************************)
EXTENDS Integers, Sequences, FiniteSets, TLC

VARIABLES
    stack,      \* the goroutine's call stack, a sequence of frames
    panicking,  \* the panic in flight: [active, payload, recovered]
    log,        \* the records written to the process-wide slog sink
    nextId,     \* identity of the next error value allocated by fmt.Errorf
    ret,        \* the value returned by the last call of Try
    calls,      \* observed: outcome of every invocation of the unit of work
    handled,    \* observed: argument of every invocation of the user handler
    resp,       \* the http.ResponseWriter of the request being served
    nextWrote,  \* observed: the writes the wrapped handler made to the response
    goroutine,  \* the goroutine that is running: 0 when the program has one only
    parked,     \* the stack and the locals of the other goroutine
    outer,      \* observed: the outcomes of a unit of work that calls Try or Retry
    probe,      \* observed: the assertion helper called, its arguments, its outcome
    scenario,   \* which operation the caller invoked
    budget      \* the maxRetries argument the caller passed to Retry

vars == <<stack, panicking, log, nextId, ret, calls, handled, resp, nextWrote, scenario, budget, probe, outer, goroutine, parked>>

----------------------------------------------------------------------------
(* Bounds *)

MaxRetries == 3

MaxWrites == 2

MaxRequests == 2

MaxInner == 2

MaxConcurrentRetries == 2

----------------------------------------------------------------------------
(* Values: errors, strings, integers; an error has an identity (id).       *)

Val(kind, id, str, num) == [kind |-> kind, id |-> id, str |-> str, num |-> num]

NoError == Val("nil", 0, "", 0)

OK == Val("ok", 0, "", 0)

ErrBoom == Val("error", 1, "boom", 0)

StrFail == Val("string", 0, "fail", 0)

Int42 == Val("int", 0, "", 42)

Payloads == {ErrBoom, StrFail, Int42}

Digit(d) == CASE d = 0 -> "0" [] d = 1 -> "1" [] d = 2 -> "2" [] d = 3 -> "3"
              [] d = 4 -> "4" [] d = 5 -> "5" [] d = 6 -> "6" [] d = 7 -> "7"
              [] d = 8 -> "8" [] OTHER -> "9"

RECURSIVE Itoa(_)
Itoa(n) == IF n < 10 THEN Digit(n) ELSE Itoa(n \div 10) \o Digit(n % 10)

\* fmt's %v of a value: an error prints Error(), a string itself, an int its digits.
FormatV(v) ==
    CASE v.kind = "int" -> Itoa(v.num)
      [] v.kind = "nil" -> "<nil>"
      [] OTHER -> v.str

\* err.Error()
ErrorText(e) == e.str

RecoveryMarker == "recovered from panic: "

\* fmt.Errorf("recovered from panic: %v", r): a newly allocated error.
WrapBug(r, id) == Val("error", id, RecoveryMarker \o FormatV(r), 0)

\* The error RecoverAndHandle hands to its handler for the recovered value r.
CapturedError(r, id) ==
    IF r.kind = "error" THEN r ELSE Val("error", id, RecoveryMarker \o FormatV(r), 0)

\* slog.Error(msg, v): one error-level record carrying v.
SlogError(l, msg, v) == Append(l, [level |-> "ERROR", msg |-> msg, arg |-> v])

\* The *http.Request handed to the handler, and the text of debug.Stack().
Request == Val("request", 0, "GET /", 0)

StackTrace == Val("stack", 0, "goroutine 1 [running]:", 0)

----------------------------------------------------------------------------
(* The http.ResponseWriter: the status line is sent once, by the first     *)
(* WriteHeader or Write; a later WriteHeader changes nothing.              *)

NewResponse == [wroteHeader |-> FALSE, status |-> 0, body |-> ""]

StatusInternalServerError == 500

WriteHeader(w, code) ==
    IF w.wroteHeader THEN w ELSE [w EXCEPT !.wroteHeader = TRUE, !.status = code]

\* Write sends the status line 200 first when none was sent.
Write(w, data) ==
    [WriteHeader(w, 200) EXCEPT !.body = @ \o data]

ReplaceResponseBug(w, msg, code) ==
    [wroteHeader |-> TRUE, status |-> code, body |-> msg \o "\n"]

\* http.Error(w, msg, code): WriteHeader(code), then Fprintln(w, msg).
HttpError(w, msg, code) == Write(WriteHeader(w, code), msg \o "\n")

----------------------------------------------------------------------------
(* Frames and the call stack *)

Frame(fn) ==
    [fn |-> fn, pc |-> "start", defers |-> <<>>, byPanic |-> FALSE,
     retries |-> 0, err |-> NoError, handler |-> "none", env |-> 0,
     work |-> "fn", n |-> 0]

\* A deferred call: the function deferred, the handler it was given, and the
\* stack index of the frame whose variables that handler captures.
Deferred(fn, handler, env) == [fn |-> fn, handler |-> handler, env |-> env]

NoPanic == [active |-> FALSE, payload |-> NoError, recovered |-> FALSE]

Top == stack[Len(stack)]

Running(fn, pc) == Len(stack) > 0 /\ Top.fn = fn /\ Top.pc = pc

SetTop(f) == [stack EXCEPT ![Len(stack)] = f]

\* The top frame moves to pc and calls f.
Call(pc, f) == Append(SetTop([Top EXCEPT !.pc = pc]), f)

\* The top frame becomes f and calls callee.
CallFrom(f, callee) == Append(SetTop(f), callee)

Pop == SubSeq(stack, 1, Len(stack) - 1)

\* panic(v) in the top frame.
Raise(v) ==
    /\ stack' = SetTop([Top EXCEPT !.pc = "panicked"])
    /\ panicking' = [active |-> TRUE, payload |-> v, recovered |-> FALSE]

NoRecoverBug(f) == FALSE

AlwaysRecoverBug(f) == TRUE

\* recover() in frame f returns the payload (and stops the panic) only when f
\* is a deferred call invoked by the unwinding of a panic not yet recovered.
Recovering(f) == f.byPanic /\ panicking.active /\ ~panicking.recovered

StillPanickingBug == panicking

\* The panic in flight once recover() has returned its payload.
Recovered == [panicking EXCEPT !.recovered = TRUE]

----------------------------------------------------------------------------
\* There is no other goroutine.
NoGoroutine ==
    [goroutine |-> 0, stack |-> <<>>, panicking |-> NoPanic, ret |-> NoError,
     calls |-> <<>>, scenario |-> "none", budget |-> 0]

\* No assertion helper has been called.
NoProbe == [helper |-> "none", value |-> NoError, message |-> "", outcome |-> NoError,
            after |-> 0]

Init ==
    /\ stack = <<Frame("main")>>
    /\ panicking = NoPanic
    /\ log = <<>>
    /\ nextId = 2
    /\ ret = NoError
    /\ calls = <<>>
    /\ handled = <<>>
    /\ resp = NewResponse
    /\ nextWrote = <<>>
    /\ probe = NoProbe
    /\ outer = <<>>
    /\ goroutine = 0
    /\ parked = NoGoroutine
    /\ scenario = "none"
    /\ budget = 0

----------------------------------------------------------------------------
(* The Go runtime: returning, deferred calls, unwinding *)

\* A returning or unwinding frame runs its next deferred call.
RunDeferred ==
    /\ Len(stack) > 0
    /\ Top.pc \in {"returning", "panicked"}
    /\ Top.defers # <<>>
    /\ LET d == Head(Top.defers)
           f == [Frame(d.fn) EXCEPT !.byPanic = (Top.pc = "panicked"),
                                    !.handler = d.handler, !.env = d.env]
       IN stack' = Append(SetTop([Top EXCEPT !.defers = Tail(Top.defers)]), f)
    /\ UNCHANGED <<panicking, log, nextId, ret, calls, handled, resp, nextWrote, scenario, budget, probe, outer, goroutine, parked>>

\* A frame with no deferred call left returns to its caller.  When it was a
\* deferred call that recovered the panic, the frame that deferred it stops
\* unwinding and returns normally.
Return ==
    /\ Len(stack) > 1
    /\ Top.pc = "returning"
    /\ Top.defers = <<>>
    /\ LET below == stack[Len(stack) - 1]
       IN IF below.pc = "panicked" /\ panicking.recovered
          THEN /\ stack' = [Pop EXCEPT ![Len(stack) - 1].pc = "returning"]
               /\ panicking' = NoPanic
          ELSE /\ stack' = Pop
               /\ UNCHANGED panicking
    /\ UNCHANGED <<log, nextId, ret, calls, handled, resp, nextWrote, scenario, budget, probe, outer, goroutine, parked>>

\* An unwinding frame with no deferred call left is abandoned and the panic
\* continues in its caller; past the last frame the goroutine terminates.
Unwind ==
    /\ Len(stack) > 0
    /\ Top.pc = "panicked"
    /\ Top.defers = <<>>
    /\ stack' = IF Len(stack) = 1 THEN <<>>
                ELSE [Pop EXCEPT ![Len(stack) - 1].pc = "panicked"]
    /\ UNCHANGED <<panicking, log, nextId, ret, calls, handled, resp, nextWrote, scenario, budget, probe, outer, goroutine, parked>>

----------------------------------------------------------------------------
(* The unit of work passed to Try and Retry: it completes or it panics.    *)

FnReturns ==
    /\ Running("fn", "start")
    /\ stack' = SetTop([Top EXCEPT !.pc = "returning"])
    /\ calls' = Append(calls, OK)
    /\ UNCHANGED <<panicking, log, nextId, ret, handled, resp, nextWrote, scenario, budget, probe, outer, goroutine, parked>>

\* What the unit of work of the running goroutine may panic with: when two
\* goroutines run, each unit of work has a payload of its own.
RaisableBy(g) ==
    CASE g = 1 -> {ErrBoom}
      [] g = 2 -> {StrFail}
      [] OTHER -> Payloads

Raisable == RaisableBy(goroutine)

FnPanics ==
    /\ Running("fn", "start")
    /\ \E p \in Raisable :
        /\ Raise(p)
        /\ calls' = Append(calls, p)
    /\ UNCHANGED <<log, nextId, ret, handled, resp, nextWrote, scenario, budget, probe, outer, goroutine, parked>>

----------------------------------------------------------------------------
(* RecoverAndHandle(fn func(err error)), panics.go 73-81 *)

GuardedHandlerBug(h, e, env) ==
    [Frame(h) EXCEPT !.err = e, !.env = env, !.defers = <<Deferred("Recover", "none", 0)>>]

\* fn(err): a plain call of the handler, with no deferred call of its own.
HandlerCall(h, e, env) == [Frame(h) EXCEPT !.err = e, !.env = env]

RecoverAndHandleNil ==
    /\ Running("RecoverAndHandle", "start")
    /\ ~Recovering(Top)
    /\ stack' = SetTop([Top EXCEPT !.pc = "returning"])
    /\ UNCHANGED <<panicking, log, nextId, ret, calls, handled, resp, nextWrote, scenario, budget, probe, outer, goroutine, parked>>

RecoverAndHandleCall ==
    /\ Running("RecoverAndHandle", "start")
    /\ Recovering(Top)
    /\ LET r == panicking.payload
           e == CapturedError(r, nextId)
       IN /\ stack' = Call("returning", HandlerCall(Top.handler, e, Top.env))
          /\ nextId' = IF e.id = nextId THEN nextId + 1 ELSE nextId
    /\ panicking' = Recovered
    /\ UNCHANGED <<log, ret, calls, handled, resp, nextWrote, scenario, budget, probe, outer, goroutine, parked>>

----------------------------------------------------------------------------
(* Try(fn func()) error, panics.go 118-129 *)

\* var err error; then the call of the function literal of lines 120-127.
TryStart ==
    /\ Running("Try", "start")
    /\ stack' = Call("afterFunc", [Frame("TryFunc") EXCEPT !.work = Top.work])
    /\ UNCHANGED <<panicking, log, nextId, ret, calls, handled, resp, nextWrote, scenario, budget, probe, outer, goroutine, parked>>

\* defer RecoverAndHandle(func(err2 error) { err = err2 }); fn()
\* The closure captures err of the Try frame, which is right below.
TryFuncBody ==
    /\ Running("TryFunc", "start")
    /\ LET d == Deferred("RecoverAndHandle", "TryClosure", Len(stack) - 1)
       IN stack' = CallFrom([Top EXCEPT !.pc = "returning", !.defers = <<d>>],
                            Frame(Top.work))
    /\ UNCHANGED <<panicking, log, nextId, ret, calls, handled, resp, nextWrote, scenario, budget, probe, outer, goroutine, parked>>

ShadowedErrBug(st, env, e) == st

\* err = err2, err being the variable of the Try frame at stack index env.
ClosureAssign(st, env, e) == [st EXCEPT ![env].err = e]

\* func(err2 error) { err = err2 }
TryClosure ==
    /\ Running("TryClosure", "start")
    /\ stack' = ClosureAssign(SetTop([Top EXCEPT !.pc = "returning"]), Top.env, Top.err)
    /\ UNCHANGED <<panicking, log, nextId, ret, calls, handled, resp, nextWrote, scenario, budget, probe, outer, goroutine, parked>>

\* return err
SharedErrBug(f) ==
    IF \E j \in 1 .. Len(parked.stack) : parked.stack[j].fn = "Try"
    THEN parked.stack[CHOOSE j \in 1 .. Len(parked.stack) : parked.stack[j].fn = "Try"].err
    ELSE f.err

\* return err: the variable err of this call of Try.
TryResult(f) == f.err

TryReturn ==
    /\ Running("Try", "afterFunc")
    /\ ret' = TryResult(Top)
    /\ stack' = SetTop([Top EXCEPT !.pc = "returning"])
    /\ UNCHANGED <<panicking, log, nextId, calls, handled, resp, nextWrote, scenario, budget, probe, outer, goroutine, parked>>

----------------------------------------------------------------------------
(* Retry(maxRetries int, fn func()), panics.go 92-104 *)

RetryContinueBug(retries) == retries >= 0

\* for retries > 0
RetryContinue(retries) == retries > 0

NeverNilBug(e) == FALSE

\* err == nil
IsNil(e) == e = NoError

RetryLogsNothingBug(l, e) == l

\* slog.Error("Retrying function due to error: %v", err)
RetryLog(l, e) == SlogError(l, "Retrying function due to error: %v", e)

RetryDecrementBug(r) == r - 2

\* retries--
RetryDecrement(r) == r - 1

\* retries := maxRetries
RetryStart ==
    /\ Running("Retry", "start")
    /\ stack' = SetTop([Top EXCEPT !.pc = "loop", !.retries = Top.n])
    /\ UNCHANGED <<panicking, log, nextId, ret, calls, handled, resp, nextWrote, scenario, budget, probe, outer, goroutine, parked>>

\* The loop condition: another attempt (err := Try(fn)), or the budget is spent.
RetryLoop ==
    /\ Running("Retry", "loop")
    /\ stack' = IF RetryContinue(Top.retries)
                THEN Call("afterTry", [Frame("Try") EXCEPT !.work = Top.work])
                ELSE SetTop([Top EXCEPT !.pc = "returning"])
    /\ UNCHANGED <<panicking, log, nextId, ret, calls, handled, resp, nextWrote, scenario, budget, probe, outer, goroutine, parked>>

\* if err == nil { return }; slog.Error(...); retries--
RetryCheck ==
    /\ Running("Retry", "afterTry")
    /\ IF IsNil(ret)
       THEN /\ stack' = SetTop([Top EXCEPT !.pc = "returning", !.err = ret])
            /\ UNCHANGED log
       ELSE /\ stack' = SetTop([Top EXCEPT !.pc = "loop", !.err = ret,
                                           !.retries = RetryDecrement(Top.retries)])
            /\ log' = RetryLog(log, ret)
    /\ UNCHANGED <<panicking, nextId, ret, calls, handled, resp, nextWrote, scenario, budget, probe, outer, goroutine, parked>>

----------------------------------------------------------------------------
(* Recover(), panics.go 50-58, deferred by a function as in readme.md 91-98 *)

\* func doSomething() { defer panics.Recover(); <code that may panic> }
DoSomething ==
    /\ Running("doSomething", "start")
    /\ stack' = CallFrom([Top EXCEPT !.pc = "returning",
                                     !.defers = <<Deferred("Recover", "none", 0)>>],
                         Frame("fn"))
    /\ UNCHANGED <<panicking, log, nextId, ret, calls, handled, resp, nextWrote, scenario, budget, probe, outer, goroutine, parked>>

\* The record Recover writes for the recovered value r.
RecoverLog(l, r) ==
    IF r.kind = "error"
    THEN SlogError(l, "Recovered from panic: %w", r)
    ELSE SlogError(l, "recovered from panic: %v", r)

Recover ==
    /\ Running("Recover", "start")
    /\ IF Recovering(Top)
       THEN /\ log' = RecoverLog(log, panicking.payload)
            /\ panicking' = Recovered
       ELSE UNCHANGED <<log, panicking>>
    /\ stack' = SetTop([Top EXCEPT !.pc = "returning"])
    /\ UNCHANGED <<nextId, ret, calls, handled, resp, nextWrote, scenario, budget, probe, outer, goroutine, parked>>

----------------------------------------------------------------------------
(* RecoverAndHandle deferred with a handler of the caller's, as in the     *)
(* example of panics.go 64-72.  The handler returns or itself panics.      *)

\* defer RecoverAndHandle(func(err error) {...}); mayPanic()
Guarded ==
    /\ Running("guarded", "start")
    /\ stack' = CallFrom([Top EXCEPT !.pc = "returning",
                                     !.defers = <<Deferred("RecoverAndHandle", "UserHandler", 0)>>],
                         Frame("fn"))
    /\ UNCHANGED <<panicking, log, nextId, ret, calls, handled, resp, nextWrote, scenario, budget, probe, outer, goroutine, parked>>

UserHandlerReturns ==
    /\ Running("UserHandler", "start")
    /\ stack' = SetTop([Top EXCEPT !.pc = "returning"])
    /\ handled' = Append(handled, [err |-> Top.err, outcome |-> OK])
    /\ UNCHANGED <<panicking, log, nextId, ret, calls, resp, nextWrote, scenario, budget, probe, outer, goroutine, parked>>

UserHandlerPanics ==
    /\ Running("UserHandler", "start")
    /\ \E p \in Payloads :
        /\ Raise(p)
        /\ handled' = Append(handled, [err |-> Top.err, outcome |-> p])
    /\ UNCHANGED <<log, nextId, ret, calls, resp, nextWrote, scenario, budget, probe, outer, goroutine, parked>>

----------------------------------------------------------------------------
(* RecoveryMiddleware(next), panics.go 133-148 *)

\* The wrapped handler writes to the response, returns or panics.
NextWriteHeader ==
    /\ Running("next", "start")
    /\ Len(nextWrote) < MaxWrites
    /\ \E code \in {200, 404} :
        /\ resp' = WriteHeader(resp, code)
        /\ nextWrote' = Append(nextWrote, [op |-> "WriteHeader", code |-> code, data |-> ""])
    /\ UNCHANGED <<stack, panicking, log, nextId, ret, calls, handled, scenario, budget, probe, outer, goroutine, parked>>

NextWrite ==
    /\ Running("next", "start")
    /\ Len(nextWrote) < MaxWrites
    /\ resp' = Write(resp, "hello")
    /\ nextWrote' = Append(nextWrote, [op |-> "Write", code |-> 0, data |-> "hello"])
    /\ UNCHANGED <<stack, panicking, log, nextId, ret, calls, handled, scenario, budget, probe, outer, goroutine, parked>>

NextReturns ==
    /\ Running("next", "start")
    /\ stack' = SetTop([Top EXCEPT !.pc = "returning"])
    /\ calls' = Append(calls, OK)
    /\ UNCHANGED <<panicking, log, nextId, ret, handled, resp, nextWrote, scenario, budget, probe, outer, goroutine, parked>>

NextPanics ==
    /\ Running("next", "start")
    /\ \E p \in Payloads :
        /\ Raise(p)
        /\ calls' = Append(calls, p)
    /\ UNCHANGED <<log, nextId, ret, handled, resp, nextWrote, scenario, budget, probe, outer, goroutine, parked>>

\* defer func() {...}(); next.ServeHTTP(w, r)
Middleware ==
    /\ Running("Middleware", "start")
    /\ stack' = CallFrom([Top EXCEPT !.pc = "returning",
                                     !.defers = <<Deferred("MiddlewareDeferred", "none", 0)>>],
                         Frame(Top.work))
    /\ UNCHANGED <<panicking, log, nextId, ret, calls, handled, resp, nextWrote, scenario, budget, probe, outer, goroutine, parked>>

\* The first record the deferred function writes for the recovered value rec:
\* the error, or else (line 140) the request r.
MiddlewareLog(l, rec) ==
    IF rec.kind = "error"
    THEN SlogError(l, "recovered from panic: %w", rec)
    ELSE SlogError(l, "recovered from panic: %v", Request)

\* if rec := recover(); rec != nil { slog.Error(...)
MiddlewareDeferred ==
    /\ Running("MiddlewareDeferred", "start")
    /\ IF Recovering(Top)
       THEN /\ log' = MiddlewareLog(log, panicking.payload)
            /\ panicking' = Recovered
            /\ stack' = SetTop([Top EXCEPT !.pc = "logStack"])
       ELSE /\ stack' = SetTop([Top EXCEPT !.pc = "returning"])
            /\ UNCHANGED <<log, panicking>>
    /\ UNCHANGED <<nextId, ret, calls, handled, resp, nextWrote, scenario, budget, probe, outer, goroutine, parked>>

\* slog.Error("Stacktrace: %s\n", debug.Stack())
MiddlewareLogStack ==
    /\ Running("MiddlewareDeferred", "logStack")
    /\ log' = SlogError(log, "Stacktrace: %s\n", StackTrace)
    /\ stack' = SetTop([Top EXCEPT !.pc = "httpError"])
    /\ UNCHANGED <<panicking, nextId, ret, calls, handled, resp, nextWrote, scenario, budget, probe, outer, goroutine, parked>>

\* http.Error(w, "Internal Server Error", http.StatusInternalServerError)
MiddlewareHttpError ==
    /\ Running("MiddlewareDeferred", "httpError")
    /\ resp' = HttpError(resp, "Internal Server Error", StatusInternalServerError)
    /\ stack' = SetTop([Top EXCEPT !.pc = "returning"])
    /\ UNCHANGED <<panicking, log, nextId, ret, calls, handled, nextWrote, scenario, budget, probe, outer, goroutine, parked>>

----------------------------------------------------------------------------
(* The assertion helpers OnError, OnNil, OnFalse, OnBlank, panics.go 12-42 *)

\* Values handed to the helpers: the nil interface, a nil *int wrapped in an
\* interface (readme.md 46-47), a pointer to an int, the int 0, strings.
NilValue == NoError

TypedNilPtr == Val("ptr", 0, "*int", 0)

ValidPtr == Val("ptr", 0, "*int", 1)

Int0 == Val("int", 0, "", 0)

True == Val("bool", 0, "", 1)

False == Val("bool", 0, "", 0)

Str(t) == Val("string", 0, t, 0)

Helpers == {"OnError", "OnNil", "OnFalse", "OnBlank"}

HelperInputs(h) ==
    CASE h = "OnError" -> {NoError, ErrBoom}
      [] h = "OnNil" -> {NilValue, TypedNilPtr, ValidPtr, Int0, Str("")}
      [] h = "OnFalse" -> {True, False}
      [] OTHER -> {Str(""), Str(" \t"), Str(" a "), Str("x")}

Messages == {"operation failed", ""}

\* runtime.Caller(1): the place of the call of the helper.
CallerFile == "main.go"

CallerLine == 12

Whitespace == {" ", "\t", "\n", "\r"}

\* strings.TrimSpace
RECURSIVE TrimLeft(_)
TrimLeft(t) ==
    IF Len(t) > 0 /\ SubSeq(t, 1, 1) \in Whitespace
    THEN TrimLeft(SubSeq(t, 2, Len(t))) ELSE t

RECURSIVE TrimRight(_)
TrimRight(t) ==
    IF Len(t) > 0 /\ SubSeq(t, Len(t), Len(t)) \in Whitespace
    THEN TrimRight(SubSeq(t, 1, Len(t) - 1)) ELSE t

TrimSpace(t) == TrimRight(TrimLeft(t))

NoDetailBug(message, detail, tail) ==
    Str("(" \o CallerFile \o ":" \o Itoa(CallerLine) \o "): " \o message \o " " \o tail)

\* fmt.Sprintf("(%s:%d): %s %v", file, line, message, detail), then tail.
Sprintf(message, detail, tail) ==
    Str("(" \o CallerFile \o ":" \o Itoa(CallerLine) \o "): " \o message \o " "
        \o detail \o tail)

\* The condition of each helper.
OnErrorFails(err) == err # NoError

\* value == nil, value being an interface (any).
OnNilFails(value) == value = NilValue

OnFalseFails(condition) == condition # True

OnBlankFails(value) == TrimSpace(value.str) = ""

\* A helper either panics with its payload or returns, changing nothing; the
\* payload is observed as the outcome of the unit of work that called it.
Helper(h, fails, payload) ==
    /\ Running(h, "start")
    /\ IF fails
       THEN /\ Raise(payload)
            /\ probe' = [probe EXCEPT !.outcome = payload]
            /\ calls' = Append(calls, payload)
       ELSE /\ stack' = SetTop([Top EXCEPT !.pc = "returning"])
            /\ probe' = [probe EXCEPT !.outcome = OK]
            /\ UNCHANGED <<panicking, calls>>
    /\ UNCHANGED <<log, nextId, ret, handled, resp, nextWrote, scenario, budget, outer, goroutine, parked>>

OnError ==
    Helper("OnError", OnErrorFails(probe.value),
           Sprintf(probe.message, FormatV(probe.value), ""))

OnNil ==
    Helper("OnNil", OnNilFails(probe.value), Sprintf(probe.message, "nil value", ""))

OnFalse ==
    Helper("OnFalse", OnFalseFails(probe.value), Sprintf(probe.message, "", ""))

OnBlank ==
    Helper("OnBlank", OnBlankFails(probe.value), Sprintf(probe.message, "blank string", "."))

\* A unit of work that calls a helper and then takes one more step.
FnCheckCalls ==
    /\ Running("fnCheck", "start")
    /\ \E h \in Helpers : \E v \in HelperInputs(h) : \E m \in Messages :
        /\ probe' = [NoProbe EXCEPT !.helper = h, !.value = v, !.message = m]
        /\ stack' = Call("afterHelper", Frame(h))
    /\ UNCHANGED <<panicking, log, nextId, ret, calls, handled, resp, nextWrote, scenario, budget, outer, goroutine, parked>>

FnCheckGoesOn ==
    /\ Running("fnCheck", "afterHelper")
    /\ probe' = [probe EXCEPT !.after = @ + 1]
    /\ calls' = Append(calls, OK)
    /\ stack' = SetTop([Top EXCEPT !.pc = "returning"])
    /\ UNCHANGED <<panicking, log, nextId, ret, handled, resp, nextWrote, scenario, budget, outer, goroutine, parked>>

----------------------------------------------------------------------------
(* A unit of work that itself calls Try or Retry, panics.go 92-129 *)

\* The inner call: Try(fn), or Retry(m, fn) with 1 <= m <= MaxInner.
InnerCalls == {Frame("Try")} \cup {[Frame("Retry") EXCEPT !.n = m] : m \in 1 .. MaxInner}

FnNestedCalls ==
    /\ Running("fnNested", "start")
    /\ \E f \in InnerCalls : stack' = Call("afterInner", f)
    /\ UNCHANGED <<panicking, log, nextId, ret, calls, handled, resp, nextWrote, scenario, budget, probe, outer, goroutine, parked>>

\* The inner call returned; the unit of work completes.
FnNestedReturns ==
    /\ Running("fnNested", "afterInner")
    /\ outer' = Append(outer, OK)
    /\ stack' = SetTop([Top EXCEPT !.pc = "returning"])
    /\ UNCHANGED <<panicking, log, nextId, ret, calls, handled, resp, nextWrote, scenario, budget, probe, goroutine, parked>>

----------------------------------------------------------------------------
(* The caller *)

MainCallRetry ==
    /\ Running("main", "start")
    /\ \E n \in -1 .. MaxRetries :
        /\ budget' = n
        /\ scenario' = "Retry"
        /\ stack' = Call("afterCall", [Frame("Retry") EXCEPT !.n = n])
    /\ UNCHANGED <<panicking, log, nextId, ret, calls, handled, resp, nextWrote, probe, outer, goroutine, parked>>

\* The caller invokes one operation of the package.
MainCalls(name, f) ==
    /\ Running("main", "start")
    /\ scenario' = name
    /\ stack' = Call("afterCall", f)
    /\ UNCHANGED <<panicking, log, nextId, ret, calls, handled, resp, nextWrote, budget, probe, outer, goroutine, parked>>

MainCallTry == MainCalls("Try", Frame("Try"))

MainCallDoSomething == MainCalls("Recover", Frame("doSomething"))

MainCallGuarded == MainCalls("RecoverAndHandle", Frame("guarded"))

\* The wrapped handler of a middleware frame is its unit of work.
Wrapping(h) == [Frame("Middleware") EXCEPT !.work = h]

MainServeHTTP == MainCalls("Middleware", Wrapping("next"))

\* The wrapped handler called with no middleware around it.
MainCallNext == MainCalls("Bare", Frame("next"))

\* The serving loop hands the next request, with a new ResponseWriter, to the
\* same adapter.
MainServeAgain ==
    /\ Running("main", "afterCall")
    /\ scenario \in {"Middleware", "Server"}
    /\ Len(calls) < MaxRequests
    /\ scenario' = "Server"
    /\ resp' = NewResponse
    /\ nextWrote' = <<>>
    /\ stack' = Call("afterCall", Wrapping("next"))
    /\ UNCHANGED <<panicking, log, nextId, ret, calls, handled, budget, probe, outer, goroutine, parked>>

\* The caller calls a helper directly.
MainCallHelper ==
    /\ Running("main", "start")
    /\ \E h \in Helpers : \E v \in HelperInputs(h) : \E m \in Messages :
        /\ probe' = [NoProbe EXCEPT !.helper = h, !.value = v, !.message = m]
        /\ stack' = Call("afterCall", Frame(h))
    /\ scenario' = "Helper"
    /\ UNCHANGED <<panicking, log, nextId, ret, calls, handled, resp, nextWrote, budget, outer, goroutine, parked>>

\* The caller runs a unit of work that calls a helper under Try.
MainCallTryCheck == MainCalls("TryCheck", [Frame("Try") EXCEPT !.work = "fnCheck"])

\* The caller runs a unit of work that calls Try or Retry under an outer
\* Try, Retry or middleware.
MainCallNestedTry == MainCalls("NestedTry", [Frame("Try") EXCEPT !.work = "fnNested"])

MainCallNestedRetry ==
    /\ Running("main", "start")
    /\ \E n \in 1 .. MaxRetries :
        /\ budget' = n
        /\ scenario' = "NestedRetry"
        /\ stack' = Call("afterCall", [Frame("Retry") EXCEPT !.n = n, !.work = "fnNested"])
    /\ UNCHANGED <<panicking, log, nextId, ret, calls, handled, resp, nextWrote, probe, outer, goroutine, parked>>

MainServeNested == MainCalls("NestedMiddleware", Wrapping("fnNested"))

\* The call returned normally and the caller goes on.
MainContinues ==
    /\ Running("main", "afterCall")
    /\ stack' = SetTop([Top EXCEPT !.pc = "done"])
    /\ UNCHANGED <<panicking, log, nextId, ret, calls, handled, resp, nextWrote, scenario, budget, probe, outer, goroutine, parked>>

----------------------------------------------------------------------------
Next ==
    \/ RunDeferred \/ Return \/ Unwind
    \/ FnReturns \/ FnPanics
    \/ RecoverAndHandleNil \/ RecoverAndHandleCall
    \/ TryStart \/ TryFuncBody \/ TryClosure \/ TryReturn
    \/ RetryStart \/ RetryLoop \/ RetryCheck
    \/ DoSomething \/ Recover
    \/ Guarded \/ UserHandlerReturns \/ UserHandlerPanics
    \/ NextWriteHeader \/ NextWrite \/ NextReturns \/ NextPanics
    \/ Middleware \/ MiddlewareDeferred \/ MiddlewareLogStack \/ MiddlewareHttpError
    \/ MainCallRetry \/ MainCallTry \/ MainCallDoSomething \/ MainCallGuarded
    \/ MainServeHTTP \/ MainCallNext \/ MainServeAgain \/ MainContinues
    \/ OnError \/ OnNil \/ OnFalse \/ OnBlank
    \/ FnCheckCalls \/ FnCheckGoesOn
    \/ MainCallHelper \/ MainCallTryCheck
    \/ FnNestedCalls \/ FnNestedReturns
    \/ MainCallNestedTry \/ MainCallNestedRetry \/ MainServeNested

Spec == Init /\ [][Next]_vars

----------------------------------------------------------------------------
(* Two goroutines, each calling Retry or Try, panics.go 92-129.  A goroutine *)
(* has its own stack, locals and panic; the log and the heap are shared.     *)

Context ==
    [goroutine |-> goroutine, stack |-> stack, panicking |-> panicking, ret |-> ret,
     calls |-> calls, scenario |-> scenario, budget |-> budget]

\* The scheduler runs the other goroutine.
Switch ==
    /\ parked.goroutine # 0
    /\ parked' = Context
    /\ goroutine' = parked.goroutine
    /\ stack' = parked.stack
    /\ panicking' = parked.panicking
    /\ ret' = parked.ret
    /\ calls' = parked.calls
    /\ scenario' = parked.scenario
    /\ budget' = parked.budget
    /\ UNCHANGED <<log, nextId, handled, resp, nextWrote, probe, outer>>

\* go func() { panics.Retry(n, fn) }()
GoRetry ==
    /\ Running("main", "start")
    /\ \E n \in 0 .. MaxConcurrentRetries :
        /\ budget' = n
        /\ scenario' = "Retry"
        /\ stack' = Call("afterCall", [Frame("Retry") EXCEPT !.n = n])
    /\ UNCHANGED <<panicking, log, nextId, ret, calls, handled, resp, nextWrote, probe, outer, goroutine, parked>>

InitConcurrent ==
    /\ stack = <<Frame("main")>>
    /\ panicking = NoPanic
    /\ log = <<>>
    /\ nextId = 2
    /\ ret = NoError
    /\ calls = <<>>
    /\ handled = <<>>
    /\ resp = NewResponse
    /\ nextWrote = <<>>
    /\ probe = NoProbe
    /\ outer = <<>>
    /\ scenario = "none"
    /\ budget = 0
    /\ goroutine = 1
    /\ parked = [NoGoroutine EXCEPT !.goroutine = 2, !.stack = <<Frame("main")>>]

NextConcurrent ==
    \/ RunDeferred \/ Return \/ Unwind
    \/ FnReturns \/ FnPanics
    \/ RecoverAndHandleNil \/ RecoverAndHandleCall
    \/ TryStart \/ TryFuncBody \/ TryClosure \/ TryReturn
    \/ RetryStart \/ RetryLoop \/ RetryCheck
    \/ GoRetry \/ MainCallTry \/ MainContinues
    \/ Switch

SpecConcurrent == InitConcurrent /\ [][NextConcurrent]_vars

----------------------------------------------------------------------------
(* What the caller observes *)

\* The caller resumed after the call and went on.
Done == Running("main", "done")

\* A panic left the goroutine's last frame.
Crashed == stack = <<>>

\* A panic reached the caller's frame.
Escaped == Crashed \/ stack[1].pc = "panicked"

\* The goroutine has not stopped short of the caller going on.
Progressing == Done \/ Crashed \/ ENABLED Next

Last(q) == q[Len(q)]

Attempts == 1 .. Len(calls)

RaisedAttempts == {i \in Attempts : calls[i] # OK}

AllRaised == \A i \in Attempts : calls[i] # OK

InRetry == scenario = "Retry"

----------------------------------------------------------------------------
(* Claims about Retry *)

\* C1: when every invocation of the unit of work raises, Retry(n, fn) with
\* n >= 0 never makes more than n invocations, has made exactly n when it has
\* returned to its caller, no panic reaches the caller, and the run does not
\* stop before the caller goes on.
C1_RetryExhaustsBudget ==
    (InRetry /\ budget >= 0 /\ AllRaised) =>
        /\ ~Escaped
        /\ Progressing
        /\ Len(calls) <= budget
        /\ (Done => Len(calls) = budget)

C1_Witness ==
    /\ InRetry /\ Done /\ AllRaised
    /\ budget = MaxRetries
    /\ Len(calls) = MaxRetries

\* C2: in Retry(n, fn) with n >= 1 only the last invocation made so far can be
\* a successful one (none follows a success); the budget is not charged for
\* the successful attempt; and Retry returns only after a success or after n
\* invocations, so a unit of work that first succeeds on attempt k <= n is
\* invoked exactly k times.
C2_RetryStopsAtSuccess ==
    (InRetry /\ budget >= 1) =>
        /\ \A i \in Attempts : calls[i] = OK => i = Len(calls)
        /\ Len(calls) <= budget
        /\ \A j \in 1 .. Len(stack) :
              (stack[j].fn = "Retry" /\ calls # <<>> /\ Last(calls) = OK) =>
                  stack[j].retries = budget - (Len(calls) - 1)
        /\ (Done => calls # <<>> /\ (Last(calls) = OK \/ Len(calls) = budget))

C2_Witness ==
    /\ InRetry /\ Done
    /\ budget = MaxRetries
    /\ Len(calls) = 2 /\ calls[1] # OK /\ calls[2] = OK

\* C3: Retry writes one error-level record per attempt that raised, carrying
\* the error captured from that attempt, and none for an attempt that
\* completed; no panic reaches the caller, and the caller's frame holds the
\* same after a success as after an exhausted budget.
C3_RetryLogsEachFailure ==
    InRetry =>
        /\ Len(log) <= Cardinality(RaisedAttempts)
        /\ \A i \in 1 .. Len(log) :
              /\ calls[i] # OK
              /\ log[i].level = "ERROR"
              /\ log[i].arg = CapturedError(calls[i], log[i].arg.id)
              /\ log[i].arg # NoError
        /\ ~Escaped
        /\ (Done => /\ Len(log) = Cardinality(RaisedAttempts)
                    /\ stack = <<[Frame("main") EXCEPT !.pc = "done"]>>
                    /\ panicking = NoPanic)

C3_Witness ==
    /\ InRetry /\ Done
    /\ Len(calls) = MaxRetries /\ AllRaised
    /\ Len(log) = MaxRetries

C3_WitnessSuccess ==
    /\ InRetry /\ Done
    /\ Len(calls) = 2 /\ Last(calls) = OK
    /\ Len(log) = 1

\* The Retry call made by the caller, once `retries := maxRetries` has run.
InRetryCall == InRetry /\ Len(stack) >= 2 /\ stack[2].fn = "Retry" /\ stack[2].pc # "start"

Remaining == stack[2].retries

Failed == Cardinality(RaisedAttempts)

\* The budget accounting of Retry(n, fn): the remaining budget is never below
\* 0, no more than n invocations are made, the attempts that raised plus the
\* remaining budget make n whenever Retry is at its loop condition or has
\* returned (and n or n + 1 during an attempt, the last failure being charged
\* after the attempt), and the run goes on until the caller resumes.
BudgetAccounting ==
    /\ Progressing
    /\ InRetryCall =>
          /\ Remaining >= 0
          /\ Len(calls) <= budget
          /\ Failed + Remaining \in {budget, budget + 1}
          /\ stack[2].pc = "loop" => Failed + Remaining = budget
          /\ (stack[2].pc = "returning" /\ AllRaised) => Failed + Remaining = budget

C19_NoAttemptWithoutBudget ==
    (InRetry /\ budget <= 0) =>
        /\ calls = <<>>
        /\ log = <<>>
        /\ \A j \in 1 .. Len(stack) : stack[j].fn \in {"main", "Retry"}
        /\ panicking = NoPanic
        /\ ~Escaped
        /\ Progressing

C19_Witness ==
    /\ InRetry /\ Done
    /\ budget = 0 - 1
    /\ calls = <<>> /\ log = <<>>

C19_WitnessZero ==
    /\ InRetry /\ Done
    /\ budget = 0
    /\ calls = <<>> /\ log = <<>>

----------------------------------------------------------------------------
(* Claims about Try and the captured error *)

InTry == scenario = "Try"

\* The error captured from payload p: p itself when p is an error, and else a
\* newly allocated error whose text is the recovery marker and then p's text.
IsCaptureOf(e, p) ==
    IF p.kind = "error"
    THEN e = p
    ELSE /\ e.kind = "error"
         /\ e \notin Payloads
         /\ \A q \in Payloads : e.id # q.id
         /\ ErrorText(e) = RecoveryMarker \o FormatV(p)

\* C4 as stated: Try invokes the unit of work once, returns no error when it
\* completes, and when it raises returns an error whose text equals the text
\* of the payload, whatever the payload.
C4_TryTextEqualsPayload ==
    InTry =>
        /\ Len(calls) <= 1
        /\ (Done => /\ Len(calls) = 1
                    /\ (calls[1] = OK => ret = NoError)
                    /\ (calls[1] # OK => /\ ret # NoError
                                         /\ ErrorText(ret) = FormatV(calls[1])))

\* C4 amended: Try invokes the unit of work once, returns no error when it
\* completes, and when it raises returns a non-nil error whose text equals
\* the payload's text if the payload is an error, and is "recovered from
\* panic: " followed by the payload's text if it is not.
C4_TryResult ==
    InTry =>
        /\ Len(calls) <= 1
        /\ ~Escaped
        /\ (Done => /\ Len(calls) = 1
                    /\ (calls[1] = OK => ret = NoError)
                    /\ (calls[1] # OK =>
                          /\ ret # NoError
                          /\ ret.kind = "error"
                          /\ ErrorText(ret) =
                                IF calls[1].kind = "error"
                                THEN FormatV(calls[1])
                                ELSE RecoveryMarker \o FormatV(calls[1])))

C4_Witness ==
    /\ InTry /\ Done
    /\ calls = <<StrFail>>
    /\ ErrorText(ret) = "recovered from panic: fail"

\* C5: the error handed to RecoverAndHandle's handler, and so the error Try
\* returns, is the payload itself when the payload is an error, and for any
\* other payload a new error whose text is "recovered from panic: " followed
\* by the payload's text.
C5_CapturedErrorIdentity ==
    /\ (InTry /\ Done /\ calls # <<>> /\ calls[1] # OK) => IsCaptureOf(ret, calls[1])
    /\ scenario = "RecoverAndHandle" =>
          \A i \in 1 .. Len(handled) : IsCaptureOf(handled[i].err, calls[1])
    /\ \A j \in 1 .. Len(stack) :
          stack[j].fn \in {"TryClosure", "UserHandler"} =>
              IsCaptureOf(stack[j].err, Last(calls))

C5_Witness ==
    /\ InTry /\ Done
    /\ calls = <<ErrBoom>>
    /\ ret = ErrBoom

C5_WitnessHandler ==
    /\ scenario = "RecoverAndHandle"
    /\ calls = <<Int42>>
    /\ Len(handled) = 1
    /\ ErrorText(handled[1].err) = "recovered from panic: 42"

----------------------------------------------------------------------------
(* Claims about Recover and RecoverAndHandle *)

InRecover == scenario = "Recover"

InHandle == scenario = "RecoverAndHandle"

Raised == calls # <<>> /\ calls[1] # OK

HandlerRaised == handled # <<>> /\ handled[1].outcome # OK

\* C6: when a function defers Recover, an abort raised in it never reaches
\* its caller: the run goes on until the caller has resumed, with no panic in
\* flight, and gone on; and when no abort was raised Recover has written
\* nothing.
C6_RecoverSwallows ==
    InRecover =>
        /\ ~Escaped
        /\ Progressing
        /\ (Running("main", "afterCall") \/ Done) => panicking = NoPanic
        /\ (calls = <<OK>>) => (log = <<>> /\ panicking = NoPanic)
        /\ Raised => Len(log) <= 1

C6_Witness ==
    /\ InRecover /\ Done /\ Raised
    /\ panicking = NoPanic

\* C7: RecoverAndHandle deferred by a unit of work invokes its handler at
\* most once, only after an abort was raised, and has invoked it exactly once
\* by the time an aborted unit of work is left; once the handler has returned
\* no panic is in flight any more when the caller resumes, and none reaches
\* the caller.
C7_HandlerOncePerAbort ==
    InHandle =>
        /\ Len(handled) <= 1
        /\ (handled # <<>>) => Raised
        /\ (Done \/ Crashed) => (Len(handled) = IF Raised THEN 1 ELSE 0)
        /\ (handled # <<>> /\ handled[1].outcome = OK) => (~Escaped /\ Progressing)
        /\ (Running("main", "afterCall") \/ Done) => panicking = NoPanic

C7_Witness ==
    /\ InHandle /\ Done /\ Raised
    /\ Len(handled) = 1 /\ handled[1].outcome = OK

\* C8: when the handler given to RecoverAndHandle itself raises, the handler
\* has been invoked once and is not invoked again, the handler's panic stays
\* in flight unrecovered, every frame it reaches is unwound, and the caller of
\* the protected function never resumes normally.
C8_HandlerPanicPropagates ==
    (InHandle /\ HandlerRaised) =>
        /\ Len(handled) = 1
        /\ panicking = [active |-> TRUE, payload |-> handled[1].outcome, recovered |-> FALSE]
        /\ (Crashed \/ Top.pc = "panicked")
        /\ Progressing
        /\ ~Done

C8_Witness ==
    /\ InHandle /\ HandlerRaised /\ Crashed
    /\ calls = <<StrFail>>
    /\ panicking.payload = ErrBoom

\* C9 as stated: whenever Recover has intercepted an abort, the log holds a
\* record carrying the recovered value and a record carrying the trace
\* snapshot of the call stack.
C9_RecoverLogsTrace ==
    (InRecover /\ Done /\ Raised) =>
        /\ \E i \in 1 .. Len(log) : log[i].arg = calls[1]
        /\ \E i \in 1 .. Len(log) : log[i].arg = StackTrace

----------------------------------------------------------------------------
(* Claims about RecoveryMiddleware *)

InMiddleware == scenario = "Middleware"

FixedBody == "Internal Server Error"

\* The status line the wrapped handler's writes q sent.
SentStatus(q) == IF q[1].op = "WriteHeader" THEN q[1].code ELSE 200

RECURSIVE SentBody(_)
SentBody(q) == IF q = <<>> THEN "" ELSE q[1].data \o SentBody(Tail(q))

C10_WitnessWritten ==
    /\ InMiddleware /\ Done /\ Raised
    /\ Len(nextWrote) = MaxWrites
    /\ resp.status = 404


\* The response a new ResponseWriter holds after the handler's writes q and,
\* when the handler raised, the line http.Error adds.
ExpectedResponse(q, outcome) ==
    [wroteHeader |-> (q # <<>> \/ outcome # OK),
     status |-> IF q # <<>> THEN SentStatus(q)
                ELSE IF outcome # OK THEN StatusInternalServerError ELSE 0,
     body |-> SentBody(q) \o (IF outcome # OK THEN FixedBody \o "\n" ELSE "")]

InServer == scenario \in {"Middleware", "Server"}

\* C11: no panic of the wrapped handler reaches the serving loop: the run goes
\* on until ServeHTTP has returned with no panic in flight; and the response
\* to every request, also one that follows an aborted request, is what its
\* own handler run alone determines, while the log holds the two records of
\* an abort for the aborted requests only.
C11_NoAbortCrossesAdapter ==
    InServer =>
        /\ ~Escaped
        /\ Progressing
        /\ (Running("main", "afterCall") \/ Done) =>
              /\ panicking = NoPanic
              /\ Len(stack) = 1
              /\ Len(log) = 2 * Cardinality(RaisedAttempts)
              /\ resp = ExpectedResponse(nextWrote, Last(calls))

C11_Witness ==
    /\ scenario = "Server" /\ Done
    /\ calls = <<StrFail, OK>>
    /\ resp = [wroteHeader |-> TRUE, status |-> 200, body |-> "hello"]

\* C12: when the wrapped handler completes without raising, the response is
\* the one the handler's writes produce, in their order, on a new
\* ResponseWriter, the same as when the handler is called with no middleware;
\* the handler was invoked once and nothing was logged.
C12_TransparentWhenNoAbort ==
    (scenario \in {"Middleware", "Bare"}) =>
        /\ Len(calls) <= 1
        /\ (Done /\ Last(calls) = OK) =>
              /\ Len(calls) = 1
              /\ resp = ExpectedResponse(nextWrote, OK)
              /\ log = <<>>

C12_Witness ==
    /\ InMiddleware /\ Done
    /\ calls = <<OK>>
    /\ Len(nextWrote) = MaxWrites
    /\ resp = [wroteHeader |-> TRUE, status |-> 404, body |-> "hello"]

\* C13 as stated: on an abort the middleware logs a record carrying the abort
\* payload (the error, or the value of a payload that is no error), then the
\* trace snapshot, and only then writes the response.
C13_LogsPayloadThenResponds ==
    (InMiddleware /\ Raised) =>
        /\ (resp # ExpectedResponse(nextWrote, OK)) => Len(log) = 2
        /\ Len(log) >= 1 => log[1].arg = calls[1]
        /\ Len(log) >= 2 => log[2].arg = StackTrace

----------------------------------------------------------------------------
(* Claims about the assertion helpers *)

\* t occurs in s.
Contains(s, t) ==
    \E i \in 1 .. (Len(s) - Len(t) + 1) : SubSeq(s, i, i + Len(t) - 1) = t

\* The helper has panicked or returned.
Settled(h) == probe.helper = h /\ probe.outcome # NoError

HelperRaised == probe.outcome \notin {NoError, OK}

\* Nothing but the call stack and the record of the call differs from the
\* state before the caller started.
NoSideEffect ==
    /\ panicking = NoPanic /\ log = <<>> /\ ret = NoError /\ calls = <<>>
    /\ handled = <<>> /\ resp = NewResponse /\ nextWrote = <<>> /\ nextId = 2

\* A value that is nil: the nil interface, or an interface holding a nil pointer.
IsAbsent(v) == v = NilValue \/ (v.kind = "ptr" /\ v.num = 0)

\* C14 as stated: OnNil raises for every nil value, a nil pointer held in an
\* interface included, and returns without side effects for every other value.
C14_OnNilRaisesForEveryNil ==
    Settled("OnNil") =>
        /\ HelperRaised <=> IsAbsent(probe.value)
        /\ Running("OnNil", "returning") => NoSideEffect

\* C15: OnError raises exactly when err is not nil; the payload of the abort
\* contains the message and the text of the error; for a nil error it returns
\* and nothing but the call stack has changed.
C15_OnErrorRaisesIffError ==
    Settled("OnError") =>
        /\ HelperRaised <=> probe.value # NoError
        /\ HelperRaised =>
              /\ Contains(probe.outcome.str, probe.message)
              /\ Contains(probe.outcome.str, ErrorText(probe.value))
              /\ Contains(probe.outcome.str, CallerFile \o ":" \o Itoa(CallerLine))
              /\ probe.after = 0
              /\ Running("OnError", "panicked") =>
                    panicking = [active |-> TRUE, payload |-> probe.outcome,
                                 recovered |-> FALSE]
        /\ Running("OnError", "returning") => NoSideEffect

C15_Witness ==
    /\ scenario = "Helper" /\ Crashed
    /\ probe.helper = "OnError" /\ probe.value = ErrBoom
    /\ probe.outcome = Str("(main.go:12): operation failed boom")

C15_WitnessNil ==
    /\ scenario = "Helper" /\ Done
    /\ probe.helper = "OnError" /\ probe.value = NoError /\ probe.outcome = OK

\* The bad state each helper is meant to detect.
AllSpace(t) == \A i \in 1 .. Len(t) : SubSeq(t, i, i) \in Whitespace

BadState(h, v) ==
    CASE h = "OnError" -> v # NoError
      [] h = "OnNil" -> IsAbsent(v)
      [] h = "OnFalse" -> v = False
      [] OTHER -> AllSpace(v.str)

InTryCheck == scenario = "TryCheck"

\* C17 as stated: inside a unit of work run by Try, a helper whose bad state
\* holds never returns, the step after it is not executed and Try returns an
\* error; a helper whose bad state does not hold changes nothing, the step
\* after it is executed and Try returns nil.
C17_FailingHelperEndsWork ==
    (InTryCheck /\ probe.outcome # NoError) =>
        /\ Progressing
        /\ IF BadState(probe.helper, probe.value)
           THEN /\ HelperRaised
                /\ probe.after = 0 /\ calls = <<probe.outcome>>
                /\ Done => IsCaptureOf(ret, probe.outcome)
           ELSE /\ ~HelperRaised
                /\ Running(probe.helper, "returning") => NoSideEffect
                /\ Done => (probe.after = 1 /\ ret = NoError)

----------------------------------------------------------------------------
(* Claims about nested capture boundaries *)

InNested == scenario \in {"NestedTry", "NestedRetry", "NestedMiddleware"}

\* The frame of the unit of work that made the inner call, 0 when there is none.
NestedAt ==
    IF \E j \in 1 .. Len(stack) : stack[j].fn = "fnNested"
    THEN CHOOSE j \in 1 .. Len(stack) : stack[j].fn = "fnNested"
    ELSE 0

\* C20: an abort raised under an inner Try or Retry is captured there: no
\* frame at or below the unit of work that made the inner call unwinds or
\* runs a deferred call because of it, the outer unit of work is invoked once
\* and completes, the outer Try returns nil, the outer Retry keeps its whole
\* budget and logs nothing, the middleware logs nothing and writes nothing,
\* also when the inner Retry has exhausted its budget.
C20_InnermostBoundaryOnly ==
    InNested =>
        /\ ~Escaped
        /\ Progressing
        /\ Len(outer) <= 1
        /\ \A j \in 1 .. Len(stack) :
              /\ (stack[j].pc = "panicked" \/ stack[j].byPanic) =>
                    (NestedAt > 0 /\ j > NestedAt)
              /\ (stack[j].fn = "Retry" /\ stack[j].work = "fnNested"
                    /\ stack[j].pc # "start") => stack[j].retries = budget
        /\ \A i \in 1 .. Len(log) :
              log[i].msg = "Retrying function due to error: %v" /\ calls[i] # OK
        /\ Len(log) <= MaxInner
        /\ resp = NewResponse
        /\ Done => /\ outer = <<OK>>
                   /\ panicking = NoPanic
                   /\ scenario = "NestedTry" => ret = NoError

C20_Witness ==
    /\ scenario = "NestedRetry" /\ Done
    /\ Len(calls) = MaxInner /\ AllRaised
    /\ outer = <<OK>>

C20_WitnessTry ==
    /\ scenario = "NestedTry" /\ Done
    /\ calls = <<ErrBoom>> /\ ret = NoError

C20_WitnessMiddleware ==
    /\ scenario = "NestedMiddleware" /\ Done
    /\ Len(calls) = MaxInner /\ AllRaised
    /\ resp = NewResponse

----------------------------------------------------------------------------
(* Claims about concurrent calls *)

Goroutines == {Context, parked}

DoneIn(c) == Len(c.stack) = 1 /\ c.stack[1].pc = "done"

FailedIn(c) == Cardinality({i \in 1 .. Len(c.calls) : c.calls[i] # OK})

\* e is the error captured from a payload raised by goroutine g's unit of work.
IsOwn(e, g) == \E p \in RaisableBy(g) : IsCaptureOf(e, p)

LoggedFor(g) == {i \in 1 .. Len(log) : IsOwn(log[i].arg, g)}

\* The Retry call of c charges its budget for the attempts of c only.
OwnBudget(c) ==
    /\ Len(c.calls) <= c.budget
    /\ \A j \in 1 .. Len(c.stack) :
          (c.stack[j].fn = "Retry" /\ c.stack[j].pc # "start") =>
              /\ FailedIn(c) + c.stack[j].retries \in {c.budget, c.budget + 1}
              /\ c.stack[j].pc = "loop" => FailedIn(c) + c.stack[j].retries = c.budget
    /\ Cardinality(LoggedFor(c.goroutine)) <= FailedIn(c)
    /\ DoneIn(c) =>
          /\ Cardinality(LoggedFor(c.goroutine)) = FailedIn(c)
          /\ c.budget > 0 => c.calls # <<>>
          /\ c.calls # <<>> => (Last(c.calls) = OK \/ Len(c.calls) = c.budget)
          /\ \A i \in 1 .. Len(c.calls) : c.calls[i] = OK => i = Len(c.calls)

\* The Try call of c returns the error of c's unit of work, or nil.
OwnResult(c) ==
    /\ Len(c.calls) <= 1
    /\ LoggedFor(c.goroutine) = {}
    /\ DoneIn(c) =>
          /\ Len(c.calls) = 1
          /\ IF c.calls[1] = OK THEN c.ret = NoError ELSE IsCaptureOf(c.ret, c.calls[1])

\* C18: under every interleaving of two goroutines that each call Retry or
\* Try, each Retry counts and logs its own attempts only, against its own
\* budget, each Try returns the error captured from its own unit of work, and
\* no error or panic of one goroutine shows in the stack, the locals or the
\* result of the other.
C18_NoInterference ==
    /\ \A c \in Goroutines :
          /\ c.scenario = "Retry" => OwnBudget(c)
          /\ c.scenario = "Try" => OwnResult(c)
          /\ c.ret # NoError => IsOwn(c.ret, c.goroutine)
          /\ c.panicking.active => c.panicking.payload \in RaisableBy(c.goroutine)
          /\ \A j \in 1 .. Len(c.stack) :
                c.stack[j].err # NoError => IsOwn(c.stack[j].err, c.goroutine)
          /\ c.stack # <<>>
    /\ \A i \in 1 .. Len(log) : IsOwn(log[i].arg, 1) \/ IsOwn(log[i].arg, 2)
    /\ (\A c \in Goroutines : DoneIn(c)) \/ ENABLED NextConcurrent

\* Goroutine 1 has exhausted Retry's budget while goroutine 2's Try returned
\* the error of its own panic, the two calls being interleaved.
C18_Witness ==
    /\ \A c \in Goroutines : DoneIn(c)
    /\ \E c \in Goroutines :
          /\ c.goroutine = 1 /\ c.scenario = "Retry"
          /\ c.calls = [i \in 1 .. MaxConcurrentRetries |-> ErrBoom]
    /\ \E c \in Goroutines :
          /\ c.goroutine = 2 /\ c.scenario = "Try"
          /\ c.calls = <<StrFail>>
          /\ ErrorText(c.ret) = "recovered from panic: fail"
    /\ Len(log) = MaxConcurrentRetries
    /\ nextId = 3

C18_WitnessMixed ==
    /\ \A c \in Goroutines : DoneIn(c)
    /\ \E c \in Goroutines :
          c.goroutine = 1 /\ c.scenario = "Try" /\ c.calls = <<OK>> /\ c.ret = NoError
    /\ \E c \in Goroutines :
          c.goroutine = 2 /\ c.scenario = "Retry" /\ c.calls = <<StrFail, OK>>

====
